---- MODULE Spec2Model ----
(***************************************************************************)
(* State-machine model of the three programs of the repository:            *)
(*   - obsidian_mpc   (arcium-relay/programs/obsidian_mpc/src/lib.rs):     *)
(*                    the batch lifecycle and its Distribution accounts;   *)
(*   - privacy_pool   (programs/privacy_pool/src/lib.rs): the commitment   *)
(*                    tree, its Merkle root and the nullifier set;         *)
(*   - circuits       (arcium-relay/encrypted-ixs/src/lib.rs): the         *)
(*                    confidential batch statistics and the pro-rata share.*)
(*                                                                         *)
(* Every instruction is one atomic step.  An instruction is modelled as    *)
(* the framework runs it: the account constraints of its #[derive(Accounts)]*)
(* struct are checked first, then the handler body runs on the in-memory   *)
(* copy of the accounts, and the accounts are written back only when the   *)
(* handler returns Ok; an Err (require!) discards every in-memory write.   *)
(* A rejected call is still a step: it records its error in ret and        *)
(* leaves the accounts as they were.                                       *)
(***************************************************************************)
EXTENDS Integers, Sequences, FiniteSets, TLC

VARIABLES
    batches,      \* obsidian_mpc: market id -> Batch account
    dists,        \* obsidian_mpc: <<market id, order_index>> -> Distribution account
    pool,         \* privacy_pool: the PrivacyPool account
    nullifiers,   \* privacy_pool: the NullifierSet account
    tokens,       \* privacy_pool: USDC balances of the user and the pool token accounts
    attempts,     \* privacy_pool: per signer, the record_nullifier transaction it
                  \* has sent to the ledger and, once executed, its outcome
    mxe,          \* circuits: the Enc<Mxe, BatchStats> ciphertext in use and the
                  \* order amounts added to it since init_batch
    payout,       \* circuits: the orders of a batch whose total was revealed, the
                  \* plaintext batch_total and total_shares, and the shares
                  \* compute_distribution has revealed for its orders so far
    ret           \* the last instruction: its name, its integer arguments, its
                  \* result and the events it emitted

vars == <<batches, dists, pool, nullifiers, tokens, attempts, mxe, payout, ret>>

(***************************************************************************)
(* Bounds of the model.                                                    *)
(***************************************************************************)
\* record_order is explored up to this many orders per batch (order_count is a u8)
MaxOrders == 2
\* order_index values 0..MaxOrderIndex are tried by record_distribution
MaxOrderIndex == 2

Markets == {1}
Sides == {0, 1}
Wallets == {7}
Counts == 0..(MaxOrders + 1)
\* values tried for revealed_total, and for total_shares
Totals == {0, 900}
ShareTotals == {100}
OrderIndices == 0..MaxOrderIndex
ShareAmounts == {25, 50}

\* the key that creates the batches and the pool
Operator == 1

(***************************************************************************)
(* obsidian_mpc: accounts.                                                 *)
(***************************************************************************)
BatchStatus == <<"Open", "Closed", "Executed", "Distributing", "Completed">>

\* position of a status in the enum
StatusRank(s) == CHOOSE i \in 1..Len(BatchStatus) : BatchStatus[i] = s

\* an account that was never created: all-zero data (BatchStatus::default() is Open)
NoBatch ==
    [initialized |-> FALSE, authority |-> 0, market_id |-> 0, side |-> 0,
     status |-> "Open", order_count |-> 0, total_usdc |-> 0, total_shares |-> 0,
     distributions_completed |-> 0]

NoDistribution ==
    [initialized |-> FALSE, batch |-> 0, order_index |-> 0, shares |-> 0,
     wallet |-> 0, executed |-> FALSE]

\* result of a handler: the error (or "Ok"), the in-memory accounts when it
\* returned, and the events it emitted
Result(err, b, d, ev) == [err |-> err, batch |-> b, dist |-> d, emit |-> ev]

Event(name, args) == [name |-> name, args |-> args]

\* the account write-back: the in-memory account is stored only on Ok
Persist(old, new, err) == IF err = "Ok" THEN new ELSE old

\* the events of a transaction are logged only when it succeeds
Emitted(r) == IF r.err = "Ok" THEN r.emit ELSE <<>>

(***************************************************************************)
(* obsidian_mpc: handler bodies.  Each takes the in-memory accounts and    *)
(* the arguments and returns a Result, statement by statement as in the    *)
(* source: the accounts in the Result are the in-memory ones at the point  *)
(* the handler returned.                                                   *)
(***************************************************************************)
create_batch(b, market_id, side) ==
    LET b1 == [b EXCEPT !.authority = Operator, !.market_id = market_id,
                        !.side = side, !.status = "Open", !.order_count = 0,
                        !.total_usdc = 0, !.total_shares = 0]
    IN  Result("Ok", b1, NoDistribution, <<Event("BatchCreated", <<market_id, side>>)>>)

\* record_order without its emit!
record_order_silent(b) ==
    IF b.status # "Open" THEN Result("BatchNotOpen", b, NoDistribution, <<>>)
    ELSE LET b1 == [b EXCEPT !.order_count = b.order_count + 1]
         IN  Result("Ok", b1, NoDistribution, <<>>)

record_order(b) ==
    IF b.status # "Open" THEN Result("BatchNotOpen", b, NoDistribution, <<>>)
    ELSE LET b1 == [b EXCEPT !.order_count = b.order_count + 1]
         IN  Result("Ok", b1, NoDistribution,
                    <<Event("OrderRecorded", <<b1.market_id, b1.order_count>>)>>)

\* close_batch without its status guard
close_batch_any_status(b, revealed_total, revealed_count) ==
    IF ~(b.order_count > 0) THEN Result("BatchEmpty", b, NoDistribution, <<>>)
    ELSE LET b1 == [b EXCEPT !.status = "Closed", !.total_usdc = revealed_total]
         IN  IF revealed_count # b1.order_count
             THEN Result("CountMismatch", b1, NoDistribution, <<>>)
             ELSE Result("Ok", b1, NoDistribution,
                         <<Event("BatchClosed",
                                 <<b1.market_id, revealed_total, revealed_count>>)>>)

\* close_batch without its BatchEmpty guard
close_batch_accepts_empty(b, revealed_total, revealed_count) ==
    IF b.status # "Open" THEN Result("BatchNotOpen", b, NoDistribution, <<>>)
    ELSE LET b1 == [b EXCEPT !.status = "Closed", !.total_usdc = revealed_total]
         IN  IF revealed_count # b1.order_count
             THEN Result("CountMismatch", b1, NoDistribution, <<>>)
             ELSE Result("Ok", b1, NoDistribution,
                         <<Event("BatchClosed",
                                 <<b1.market_id, revealed_total, revealed_count>>)>>)

\* close_batch without its count check
close_batch_no_count_check(b, revealed_total, revealed_count) ==
    IF b.status # "Open" THEN Result("BatchNotOpen", b, NoDistribution, <<>>)
    ELSE IF ~(b.order_count > 0) THEN Result("BatchEmpty", b, NoDistribution, <<>>)
    ELSE LET b1 == [b EXCEPT !.status = "Closed", !.total_usdc = revealed_total]
         IN  Result("Ok", b1, NoDistribution,
                    <<Event("BatchClosed",
                            <<b1.market_id, revealed_total, revealed_count>>)>>)

close_batch(b, revealed_total, revealed_count) ==
    IF b.status # "Open" THEN Result("BatchNotOpen", b, NoDistribution, <<>>)
    ELSE IF ~(b.order_count > 0) THEN Result("BatchEmpty", b, NoDistribution, <<>>)
    ELSE LET b1 == [b EXCEPT !.status = "Closed", !.total_usdc = revealed_total]
         IN  IF revealed_count # b1.order_count
             THEN Result("CountMismatch", b1, NoDistribution, <<>>)
             ELSE Result("Ok", b1, NoDistribution,
                         <<Event("BatchClosed",
                                 <<b1.market_id, revealed_total, revealed_count>>)>>)

\* record_execution without its status guard
record_execution_any_status(b, total_shares) ==
    LET b1 == [b EXCEPT !.status = "Executed", !.total_shares = total_shares]
    IN  Result("Ok", b1, NoDistribution,
               <<Event("ExecutionRecorded", <<b1.market_id, total_shares>>)>>)

record_execution(b, total_shares) ==
    IF b.status # "Closed" THEN Result("BatchNotClosed", b, NoDistribution, <<>>)
    ELSE LET b1 == [b EXCEPT !.status = "Executed", !.total_shares = total_shares]
         IN  Result("Ok", b1, NoDistribution,
                    <<Event("ExecutionRecorded", <<b1.market_id, total_shares>>)>>)

record_distribution(b, d, order_index, shares, wallet) ==
    IF ~(b.status = "Executed" \/ b.status = "Distributing")
    THEN Result("BatchNotExecuted", b, d, <<>>)
    ELSE LET b1 == IF b.status = "Executed"
                   THEN [b EXCEPT !.status = "Distributing"] ELSE b
             d1 == [d EXCEPT !.batch = b1.market_id, !.order_index = order_index,
                             !.shares = shares, !.wallet = wallet,
                             !.executed = FALSE]
         IN  Result("Ok", b1, d1,
                    <<Event("DistributionRecorded",
                            <<b1.market_id, order_index, shares, wallet>>)>>)

\* mark_distributed without its AlreadyDistributed guard
mark_distributed_unguarded(b, d) ==
    LET d1 == [d EXCEPT !.executed = TRUE]
        b1 == [b EXCEPT !.distributions_completed = b.distributions_completed + 1]
        b2 == IF b1.distributions_completed = b1.order_count
              THEN [b1 EXCEPT !.status = "Completed"] ELSE b1
    IN  Result("Ok", b2, d1,
               <<Event("DistributionExecuted", <<b2.market_id, d1.order_index>>)>>)

mark_distributed(b, d) ==
    IF d.executed THEN Result("AlreadyDistributed", b, d, <<>>)
    ELSE LET d1 == [d EXCEPT !.executed = TRUE]
             b1 == [b EXCEPT !.distributions_completed = b.distributions_completed + 1]
             b2 == IF b1.distributions_completed = b1.order_count
                   THEN [b1 EXCEPT !.status = "Completed"] ELSE b1
         IN  Result("Ok", b2, d1,
                    <<Event("DistributionExecuted", <<b2.market_id, d1.order_index>>)>>)

(***************************************************************************)
(* obsidian_mpc: account constraints, checked before the handler runs.     *)
(***************************************************************************)
\* init_if_needed in place of init: an existing account is accepted
InitAccount_if_needed(a) == "Ok"

\* #[account(init, ...)]: the address must not hold an account yet
InitAccount(a) == IF a.initialized THEN "AccountInUse" ELSE "Ok"

\* Account<'info, T> without init: the account must exist
LoadAccount(a) == IF a.initialized THEN "Ok" ELSE "AccountNotInitialized"

\* #[account(mut, has_one = batch)] of MarkDistributed
HasOneBatch(d, market_id) == IF d.batch = market_id THEN "Ok" ELSE "ConstraintHasOne"

\* the first constraint that fails, or "Ok"
FirstError(errs) ==
    IF \E i \in 1..Len(errs) : errs[i] # "Ok"
    THEN errs[CHOOSE i \in 1..Len(errs) :
                 errs[i] # "Ok" /\ \A j \in 1..(i - 1) : errs[j] = "Ok"]
    ELSE "Ok"

\* one instruction on a batch (and a distribution): constraints, handler, write-back
Run(constraint, b, d, r) ==
    IF constraint # "Ok" THEN Result(constraint, b, d, <<>>) ELSE r

\* the record of an instruction returning Result<T>; value is the T of an Ok
CallValue(op, args, r, value) ==
    [op |-> op, args |-> args, err |-> r.err, emit |-> Emitted(r), value |-> value]

\* the record of an instruction returning Result<()>
Call(op, args, r) == CallValue(op, args, r, "()")

CommitBatch(m, r, call) ==
    /\ batches' = [batches EXCEPT ![m] = Persist(batches[m], r.batch, r.err)]
    /\ ret' = call
    /\ UNCHANGED <<dists, pool, nullifiers, tokens, mxe, attempts, payout>>

CommitBatchDist(m, k, r, call) ==
    /\ batches' = [batches EXCEPT ![m] = Persist(batches[m], r.batch, r.err)]
    /\ dists' = [dists EXCEPT ![k] = Persist(dists[k], r.dist, r.err)]
    /\ ret' = call
    /\ UNCHANGED <<pool, nullifiers, tokens, mxe, attempts, payout>>

(***************************************************************************)
(* obsidian_mpc: the instructions.                                         *)
(***************************************************************************)
CreateBatch(m, side) ==
    LET r == Run(InitAccount(batches[m]), batches[m], NoDistribution,
                 create_batch([batches[m] EXCEPT !.initialized = TRUE], m, side))
    IN  CommitBatch(m, r, Call("create_batch", <<m, side>>, r))

RecordOrder(m) ==
    /\ batches[m].status = "Open" => batches[m].order_count < MaxOrders
    /\ LET r == Run(LoadAccount(batches[m]), batches[m], NoDistribution,
                    record_order(batches[m]))
       IN  CommitBatch(m, r, Call("record_order", <<m>>, r))

CloseBatch(m, revealed_total, revealed_count) ==
    LET r == Run(LoadAccount(batches[m]), batches[m], NoDistribution,
                 close_batch(batches[m], revealed_total, revealed_count))
    IN  CommitBatch(m, r, Call("close_batch", <<m, revealed_total, revealed_count>>, r))

RecordExecution(m, total_shares) ==
    LET r == Run(LoadAccount(batches[m]), batches[m], NoDistribution,
                 record_execution(batches[m], total_shares))
    IN  CommitBatch(m, r, Call("record_execution", <<m, total_shares>>, r))

RecordDistribution(m, order_index, shares, wallet) ==
    LET k == <<m, order_index>>
        r == Run(FirstError(<<LoadAccount(batches[m]), InitAccount(dists[k])>>),
                 batches[m], dists[k],
                 record_distribution(batches[m],
                                     [dists[k] EXCEPT !.initialized = TRUE],
                                     order_index, shares, wallet))
    IN  CommitBatchDist(m, k, r,
                        Call("record_distribution", <<m, order_index, shares, wallet>>, r))

MarkDistributed(m, k) ==
    LET r == Run(FirstError(<<LoadAccount(batches[m]), LoadAccount(dists[k]),
                              HasOneBatch(dists[k], m)>>),
                 batches[m], dists[k],
                 mark_distributed(batches[m], dists[k]))
    IN  CommitBatchDist(m, k, r, Call("mark_distributed", <<m, k[1], k[2]>>, r))

DistKeys == Markets \X OrderIndices

MpcNext ==
    \/ \E m \in Markets, side \in Sides : CreateBatch(m, side)
    \/ \E m \in Markets : RecordOrder(m)
    \/ \E m \in Markets, t \in Totals, c \in Counts : CloseBatch(m, t, c)
    \/ \E m \in Markets, t \in ShareTotals : RecordExecution(m, t)
    \/ \E m \in Markets, i \in OrderIndices, s \in ShareAmounts, w \in Wallets :
           RecordDistribution(m, i, s, w)
    \/ \E m \in Markets, k \in DistKeys : MarkDistributed(m, k)

\* no instruction has run yet
NoCall == [op |-> "none", args |-> <<>>, err |-> "Ok", emit |-> <<>>, value |-> "()"]

MpcInit ==
    /\ batches = [m \in Markets |-> NoBatch]
    /\ dists = [k \in DistKeys |-> NoDistribution]


(***************************************************************************)
(* privacy_pool: constants and values.                                     *)
(***************************************************************************)
MERKLE_DEPTH == 5
MAX_LEAVES == 32

\* the first VariedLeaves leaves take any commitment of Commitments; the
\* leaves after them are filled with DefaultCommitment
VariedLeaves == 3
\* the user's token account starts with this many units
UserFunds == 1

\* A 32-byte value is a tuple: <<n>> is the value a caller passes (n = 0 is
\* [0u8; 32]), <<l, r>> is the digest of l and r.
Zero == <<0>>
DefaultCommitment == <<1>>
Commitments == {Zero, <<1>>, <<2>>}
Nullifiers == {0, 1, 2}
Amounts == {0, 1}
Signers == {1, 2}

\* Poseidon over two field elements, taken as collision-free: the digest of
\* (l, r) is the pair itself, equal to no other digest and to no caller value
hash_pair(left, right) == <<left, right>>

\* PadLevel without the padding
PadLevel_none(level) == level

\* while current_level.len() < (1 << MERKLE_DEPTH) { push([0u8; 32]) }
PadLevel(level) ==
    LET len == Len(level)
    IN  IF len < 2 ^ MERKLE_DEPTH
        THEN level \o [i \in 1..(2 ^ MERKLE_DEPTH - len) |-> Zero]
        ELSE level

\* one round: for i in (0..len).step_by(2) { push(hash_pair(l[i], l.get(i+1) or zero)) }
NextLevel(level) ==
    LET len == Len(level)
    IN  [j \in 1..((len + 1) \div 2) |->
            hash_pair(level[2 * j - 1],
                      IF 2 * j <= len THEN level[2 * j] ELSE Zero)]

RECURSIVE HashUp(_, _)
HashUp(current_level, rounds) ==
    IF rounds = 0 THEN current_level
    ELSE LET next_level == NextLevel(current_level)
         IN  HashUp(next_level, rounds - 1)

\* leaves is the MAX_LEAVES-slot array (slot i of the source is leaves[i + 1])
compute_merkle_root(leaves, count) ==
    IF count = 0 THEN Zero
    ELSE LET current_level == PadLevel(SubSeq(leaves, 1, count))
         IN  HashUp(current_level, MERKLE_DEPTH)[1]

(***************************************************************************)
(* privacy_pool: accounts.                                                 *)
(***************************************************************************)
NoPool ==
    [initialized |-> FALSE, authority |-> 0, merkle_root |-> Zero, next_index |-> 0,
     nullifier_count |-> 0, leaves |-> [i \in 1..MAX_LEAVES |-> Zero]]

\* a NullifierSet account as allocated: count 0, every slot zero
EmptyNullifierSet == [count |-> 0, data |-> [i \in 1..MAX_LEAVES |-> 0]]

PoolResult(err, p, t, ev) == [err |-> err, pool |-> p, tokens |-> t, emit |-> ev]

\* transfer_checked from the user's token account to the pool's
transfer_checked(t, amount) ==
    IF t.user < amount THEN [err |-> "InsufficientFunds", tokens |-> t]
    ELSE [err |-> "Ok", tokens |-> [user |-> t.user - amount, pool |-> t.pool + amount]]

(***************************************************************************)
(* privacy_pool: handler bodies.                                           *)
(***************************************************************************)
initialize(p, t, authority) ==
    LET p1 == [p EXCEPT !.authority = authority, !.merkle_root = Zero,
                        !.next_index = 0, !.nullifier_count = 0]
    IN  PoolResult("Ok", p1, t, <<>>)

\* deposit with the transfer made before the TreeFull check
deposit_transfer_first(p, t, commitment, amount) ==
    LET x == transfer_checked(t, amount)
    IN  IF x.err # "Ok" THEN PoolResult(x.err, p, x.tokens, <<>>)
        ELSE IF ~(p.next_index < MAX_LEAVES) THEN PoolResult("TreeFull", p, x.tokens, <<>>)
        ELSE LET leaf_index == p.next_index
                 p1 == [p EXCEPT !.leaves[leaf_index + 1] = commitment,
                                 !.next_index = p.next_index + 1]
                 p2 == [p1 EXCEPT !.merkle_root =
                           compute_merkle_root(p1.leaves, p1.next_index)]
             IN  PoolResult("Ok", p2, x.tokens,
                            <<Event("DepositEvent", <<leaf_index, commitment[1]>>)>>)

deposit(p, t, commitment, amount) ==
    IF ~(p.next_index < MAX_LEAVES) THEN PoolResult("TreeFull", p, t, <<>>)
    ELSE LET x == transfer_checked(t, amount)
         IN  IF x.err # "Ok" THEN PoolResult(x.err, p, x.tokens, <<>>)
             ELSE LET leaf_index == p.next_index
                      p1 == [p EXCEPT !.leaves[leaf_index + 1] = commitment,
                                      !.next_index = p.next_index + 1]
                      p2 == [p1 EXCEPT !.merkle_root =
                                compute_merkle_root(p1.leaves, p1.next_index)]
                  IN  PoolResult("Ok", p2, x.tokens,
                                 <<Event("DepositEvent", <<leaf_index, commitment[1]>>)>>)

\* add_commitment writing the commitment to slot 0
add_commitment_slot_zero(p, t, commitment) ==
    IF ~(p.next_index < MAX_LEAVES) THEN PoolResult("TreeFull", p, t, <<>>)
    ELSE LET leaf_index == p.next_index
             p1 == [p EXCEPT !.leaves[1] = commitment,
                             !.next_index = p.next_index + 1]
             p2 == [p1 EXCEPT !.merkle_root =
                       compute_merkle_root(p1.leaves, p1.next_index)]
         IN  PoolResult("Ok", p2, t,
                        <<Event("CommitmentAddedEvent", <<leaf_index, commitment[1]>>)>>)

\* add_commitment with the root computed over the count before the increment
add_commitment_stale_root(p, t, commitment) ==
    IF ~(p.next_index < MAX_LEAVES) THEN PoolResult("TreeFull", p, t, <<>>)
    ELSE LET leaf_index == p.next_index
             p1 == [p EXCEPT !.leaves[leaf_index + 1] = commitment,
                             !.next_index = p.next_index + 1]
             p2 == [p1 EXCEPT !.merkle_root =
                       compute_merkle_root(p1.leaves, p.next_index)]
         IN  PoolResult("Ok", p2, t,
                        <<Event("CommitmentAddedEvent", <<leaf_index, commitment[1]>>)>>)

add_commitment(p, t, commitment) ==
    IF ~(p.next_index < MAX_LEAVES) THEN PoolResult("TreeFull", p, t, <<>>)
    ELSE LET leaf_index == p.next_index
             p1 == [p EXCEPT !.leaves[leaf_index + 1] = commitment,
                             !.next_index = p.next_index + 1]
             p2 == [p1 EXCEPT !.merkle_root =
                       compute_merkle_root(p1.leaves, p1.next_index)]
         IN  PoolResult("Ok", p2, t,
                        <<Event("CommitmentAddedEvent", <<leaf_index, commitment[1]>>)>>)

\* is_nullifier_used scanning all MAX_LEAVES slots instead of the first count
is_nullifier_used_all_slots(ns, nullifier) ==
    \E i \in 1..MAX_LEAVES : ns.data[i] = nullifier

\* for i in 0..count { if data[i] == nullifier { return Ok(true) } } Ok(false)
is_nullifier_used(ns, nullifier) ==
    \E i \in 1..ns.count : ns.data[i] = nullifier

NullifierResult(err, ns) == [err |-> err, nullifiers |-> ns, emit |-> <<>>]

\* record_nullifier without the scan of the stored entries
record_nullifier_no_scan(ns, nullifier) ==
    LET count == ns.count
    IN  IF ~(count < MAX_LEAVES) THEN NullifierResult("NullifierStorageFull", ns)
        ELSE NullifierResult("Ok",
                 [ns EXCEPT !.data[count + 1] = nullifier, !.count = ns.count + 1])

\* record_nullifier whose scan stops one entry short
record_nullifier_short_scan(ns, nullifier) ==
    IF \E i \in 1..(ns.count - 1) : ~(ns.data[i] # nullifier)
    THEN NullifierResult("NullifierAlreadyUsed", ns)
    ELSE LET count == ns.count
         IN  IF ~(count < MAX_LEAVES) THEN NullifierResult("NullifierStorageFull", ns)
             ELSE NullifierResult("Ok",
                      [ns EXCEPT !.data[count + 1] = nullifier, !.count = ns.count + 1])

record_nullifier(ns, nullifier) ==
    IF \E i \in 1..ns.count : ~(ns.data[i] # nullifier)
    THEN NullifierResult("NullifierAlreadyUsed", ns)
    ELSE LET count == ns.count
         IN  IF ~(count < MAX_LEAVES) THEN NullifierResult("NullifierStorageFull", ns)
             ELSE NullifierResult("Ok",
                      [ns EXCEPT !.data[count + 1] = nullifier, !.count = ns.count + 1])

(***************************************************************************)
(* privacy_pool: the instructions.                                         *)
(***************************************************************************)
RunPool(constraint, p, t, r) ==
    IF constraint # "Ok" THEN PoolResult(constraint, p, t, <<>>) ELSE r

CommitPool(r, call) ==
    /\ pool' = Persist(pool, r.pool, r.err)
    /\ tokens' = Persist(tokens, r.tokens, r.err)
    /\ ret' = call
    /\ UNCHANGED <<batches, dists, nullifiers, mxe, attempts, payout>>

\* the commitments tried for the leaf at index i
CommitmentsAt(i) ==
    IF i < VariedLeaves \/ i >= MAX_LEAVES THEN Commitments ELSE {DefaultCommitment}

Initialize(authority) ==
    LET r == RunPool(InitAccount(pool), pool, tokens,
                     initialize([pool EXCEPT !.initialized = TRUE], tokens, authority))
    IN  CommitPool(r, Call("initialize", <<authority>>, r))

Deposit(commitment, amount) ==
    LET r == RunPool(LoadAccount(pool), pool, tokens,
                     deposit(pool, tokens, commitment, amount))
    IN  CommitPool(r, Call("deposit", <<commitment[1], amount>>, r))

AddCommitment(signer, commitment) ==
    LET r == RunPool(LoadAccount(pool), pool, tokens,
                     add_commitment(pool, tokens, commitment))
    IN  CommitPool(r, Call("add_commitment", <<commitment[1], signer>>, r))

IsNullifierUsed(nullifier) ==
    /\ ret' = CallValue("is_nullifier_used", <<nullifier>>,
                        NullifierResult("Ok", nullifiers),
                        IF is_nullifier_used(nullifiers, nullifier)
                        THEN "true" ELSE "false")
    /\ UNCHANGED <<batches, dists, pool, tokens, nullifiers, mxe, attempts, payout>>

RecordNullifier(signer, nullifier) ==
    LET r == record_nullifier(nullifiers, nullifier)
    IN  /\ nullifiers' = Persist(nullifiers, r.nullifiers, r.err)
        /\ ret' = Call("record_nullifier", <<nullifier, signer>>, r)
        /\ UNCHANGED <<batches, dists, pool, tokens, mxe, attempts, payout>>

PoolNext ==
    \/ Initialize(Operator)
    \/ \E c \in CommitmentsAt(pool.next_index), a \in Amounts : Deposit(c, a)
    \/ \E s \in Signers, c \in CommitmentsAt(pool.next_index) : AddCommitment(s, c)

NullifierNext ==
    \/ \E n \in Nullifiers : IsNullifierUsed(n)
    \/ \E s \in Signers, n \in Nullifiers : RecordNullifier(s, n)

(***************************************************************************)
(* privacy_pool: record_nullifier transactions of several signers in       *)
(* flight at once.  A transaction names the NullifierSet account as        *)
(* writable; the ledger executes the transactions that write one account   *)
(* one after the other, in any order, each instruction running to its end  *)
(* before the next one starts.                                             *)
(***************************************************************************)
\* the race is explored on the empty set and on a set that earlier
\* record_nullifier calls have filled up to SpareSlots free slots
SpareSlots == 1

\* the nullifier stored at index i of the filled set
FillerNullifier(i) == 100 + i

FilledNullifierSet(count) ==
    [count |-> count,
     data |-> [i \in 1..MAX_LEAVES |-> IF i <= count THEN FillerNullifier(i - 1) ELSE 0]]

\* raced: the transaction was in flight together with one of another
\* signer for the same nullifier
NoAttempt == [status |-> "none", nullifier |-> 0, raced |-> FALSE]

\* signer s has a transaction for the nullifier in flight
InFlight(s, nullifier) ==
    attempts[s].status = "sent" /\ attempts[s].nullifier = nullifier

\* signer sends record_nullifier(nullifier), for a nullifier it sees unused
SendRecordNullifier(signer, nullifier) ==
    /\ attempts[signer].status # "sent"
    /\ ~is_nullifier_used(nullifiers, nullifier)
    /\ attempts' =
           [s \in Signers |->
               IF s = signer
               THEN [status |-> "sent", nullifier |-> nullifier,
                     raced |-> \E o \in Signers \ {signer} : InFlight(o, nullifier)]
               ELSE IF InFlight(s, nullifier)
                    THEN [attempts[s] EXCEPT !.raced = TRUE]
                    ELSE attempts[s]]
    /\ UNCHANGED <<batches, dists, pool, nullifiers, tokens, mxe, ret, payout>>

\* the ledger executes the transaction the signer has sent
ExecuteRecordNullifier(signer) ==
    /\ attempts[signer].status = "sent"
    /\ LET nullifier == attempts[signer].nullifier
           r == record_nullifier(nullifiers, nullifier)
       IN  /\ nullifiers' = Persist(nullifiers, r.nullifiers, r.err)
           /\ attempts' = [attempts EXCEPT ![signer].status = r.err]
           /\ ret' = Call("record_nullifier", <<nullifier, signer>>, r)
    /\ UNCHANGED <<batches, dists, pool, tokens, mxe, payout>>

RaceNext ==
    \/ \E s \in Signers, n \in Nullifiers : SendRecordNullifier(s, n)
    \/ \E s \in Signers : ExecuteRecordNullifier(s)

PoolInit ==
    /\ pool = NoPool
    /\ tokens = [user |-> UserFunds, pool |-> 0]
    /\ nullifiers = EmptyNullifierSet
    /\ attempts = [s \in Signers |-> NoAttempt]

(***************************************************************************)
(* circuits: the encrypted instructions.  A u64 is modelled with           *)
(* AmountBits bits and a u128 with twice as many, so that the product of   *)
(* two u64 values always fits the u128 and the quotient need not fit the   *)
(* u64, as in the source.                                                  *)
(***************************************************************************)
AmountBits == 2
\* add_to_batch is explored up to this many orders (order_count is a u8)
MaxAdds == 3

U64 == 2 ^ AmountBits
U128 == 2 ^ (2 * AmountBits)
U8 == 256

\* the order amounts tried by add_to_batch: zero, one, two and u64::MAX
OrderAmounts == {0, 1, 2, U64 - 1}
\* every u64
AllU64 == 0..(U64 - 1)
\* values tried for wallet_lo and wallet_hi
WalletHalves == {0, 9}

\* v as u64
as_u64(v) == v % U64
\* v as u128
as_u128(v) == v % U128

\* Enc<Owner, T>: a ciphertext; only its owner learns plain
Enc(owner, plain) == [owner |-> owner, plain |-> plain]
to_arcis(ctxt) == ctxt.plain
from_arcis(owner, plain) == Enc(owner, plain)
\* .reveal(): the value leaves the computation as plaintext
reveal(v) == v

BatchStats(total_usdc, order_count) ==
    [total_usdc |-> total_usdc, order_count |-> order_count]

\* what an integer overflow inside a circuit does is not fixed by the
\* source: the sum either wraps or the computation aborts
OverflowOutcomes == {"wrap", "abort"}

CircuitResult(err, value) == [err |-> err, value |-> value, emit |-> <<>>]

\* init_batch with a count that starts at one
init_batch_count_one == from_arcis("Mxe", BatchStats(0, 1))

init_batch == from_arcis("Mxe", BatchStats(0, 0))

add_to_batch(usdc_amount, stats_ctxt, on_overflow) ==
    LET amount == to_arcis(usdc_amount)
        stats == to_arcis(stats_ctxt)
        total == stats.total_usdc + amount
        count == stats.order_count + 1
    IN  IF (total >= U64 \/ count >= U8) /\ on_overflow = "abort"
        THEN CircuitResult("Overflow", stats_ctxt)
        ELSE CircuitResult("Ok", from_arcis(stats_ctxt.owner,
                                            BatchStats(total % U64, count % U8)))

reveal_batch_total(stats_ctxt) ==
    LET stats == to_arcis(stats_ctxt)
    IN  <<reveal(stats.total_usdc), reveal(stats.order_count)>>

\* compute_distribution with the product formed in u64
compute_distribution_u64(order_amount, wallet_lo, wallet_hi, batch_total, total_shares) ==
    LET amount == to_arcis(order_amount)
        w_lo == to_arcis(wallet_lo)
        w_hi == to_arcis(wallet_hi)
        shares == IF batch_total > 0
                  THEN as_u64(as_u64(amount * total_shares) \div batch_total)
                  ELSE 0
    IN  <<reveal(shares), reveal(w_lo), reveal(w_hi)>>

\* compute_distribution with the quotient rounded up
compute_distribution_round_up(order_amount, wallet_lo, wallet_hi, batch_total, total_shares) ==
    LET amount == to_arcis(order_amount)
        w_lo == to_arcis(wallet_lo)
        w_hi == to_arcis(wallet_hi)
        shares == IF batch_total > 0
                  THEN as_u64(as_u128(as_u128(amount) * as_u128(total_shares)
                                          + as_u128(batch_total) - 1)
                                  \div as_u128(batch_total))
                  ELSE 0
    IN  <<reveal(shares), reveal(w_lo), reveal(w_hi)>>

compute_distribution(order_amount, wallet_lo, wallet_hi, batch_total, total_shares) ==
    LET amount == to_arcis(order_amount)
        w_lo == to_arcis(wallet_lo)
        w_hi == to_arcis(wallet_hi)
        shares == IF batch_total > 0
                  THEN as_u64(as_u128(as_u128(amount) * as_u128(total_shares))
                                  \div as_u128(batch_total))
                  ELSE 0
    IN  <<reveal(shares), reveal(w_lo), reveal(w_hi)>>

\* no Enc<Mxe, BatchStats> exists yet
NoStats == [created |-> FALSE, stats |-> Enc("Mxe", BatchStats(0, 0)), orders |-> <<>>]

InitBatch ==
    /\ mxe' = [created |-> TRUE, stats |-> init_batch, orders |-> <<>>]
    /\ ret' = Call("init_batch", <<>>, CircuitResult("Ok", "()"))
    /\ UNCHANGED <<batches, dists, pool, nullifiers, tokens, attempts, payout>>

AddToBatch(amount, on_overflow) ==
    /\ mxe.created
    /\ Len(mxe.orders) < MaxAdds
    /\ LET r == add_to_batch(Enc("Shared", amount), mxe.stats, on_overflow)
       IN  /\ mxe' = IF r.err = "Ok"
                     THEN [mxe EXCEPT !.stats = r.value,
                                      !.orders = Append(mxe.orders, amount)]
                     ELSE mxe
           /\ ret' = Call("add_to_batch", <<amount>>, r)
    /\ UNCHANGED <<batches, dists, pool, nullifiers, tokens, attempts, payout>>

RevealBatchTotal ==
    /\ mxe.created
    /\ ret' = CallValue("reveal_batch_total", <<>>, CircuitResult("Ok", "()"),
                        reveal_batch_total(mxe.stats))
    /\ UNCHANGED <<batches, dists, pool, nullifiers, tokens, mxe, attempts, payout>>

ComputeDistribution(amount, w_lo, w_hi, batch_total, total_shares) ==
    /\ ret' = CallValue("compute_distribution",
                        <<amount, w_lo, w_hi, batch_total, total_shares>>,
                        CircuitResult("Ok", "()"),
                        compute_distribution(Enc("Shared", amount), Enc("Shared", w_lo),
                                             Enc("Shared", w_hi), batch_total,
                                             total_shares))
    /\ UNCHANGED <<batches, dists, pool, nullifiers, tokens, mxe, attempts, payout>>

StatsNext ==
    \/ InitBatch
    \/ \E a \in OrderAmounts, o \in OverflowOutcomes : AddToBatch(a, o)
    \/ RevealBatchTotal

ShareNext ==
    \E a \in AllU64, lo \in WalletHalves, hi \in WalletHalves,
       bt \in AllU64, ts \in AllU64 : ComputeDistribution(a, lo, hi, bt, ts)

(***************************************************************************)
(* circuits: the distribution of one batch.  The orders of the batch were  *)
(* added by add_to_batch and their total revealed; compute_distribution is *)
(* then run once per order, in order, with that total and the total_shares *)
(* of the execution.                                                       *)
(***************************************************************************)
RECURSIVE Sum(_)
Sum(amounts) ==
    IF amounts = <<>> THEN 0 ELSE amounts[1] + Sum(Tail(amounts))

\* init_batch followed by one add_to_batch per amount
RECURSIVE StatsAfter(_, _)
StatsAfter(amounts, on_overflow) ==
    IF amounts = <<>> THEN CircuitResult("Ok", init_batch)
    ELSE LET n == Len(amounts)
             before == StatsAfter(SubSeq(amounts, 1, n - 1), on_overflow)
         IN  IF before.err # "Ok" THEN before
             ELSE add_to_batch(Enc("Shared", amounts[n]), before.value, on_overflow)

\* the batches tried: one to MaxAdds orders with amounts of OrderAmounts
OrderBatches == UNION {[1..n -> OrderAmounts] : n \in 1..MaxAdds}

NoPayout ==
    [started |-> FALSE, amounts |-> <<>>, batch_total |-> 0, total_shares |-> 0,
     shares |-> <<>>]

\* the total of a batch is revealed and its execution bought total_shares
StartPayout(amounts, total_shares) ==
    /\ ~payout.started
    /\ LET stats == StatsAfter(amounts, "wrap").value
       IN  payout' = [started |-> TRUE, amounts |-> amounts,
                      batch_total |-> reveal_batch_total(stats)[1],
                      total_shares |-> total_shares, shares |-> <<>>]
    /\ UNCHANGED <<batches, dists, pool, nullifiers, tokens, attempts, mxe, ret>>

\* compute_distribution for the next order of the batch
ComputeNextShare(w_lo, w_hi) ==
    /\ payout.started
    /\ Len(payout.shares) < Len(payout.amounts)
    /\ LET amount == payout.amounts[Len(payout.shares) + 1]
           out == compute_distribution(Enc("Shared", amount), Enc("Shared", w_lo),
                                       Enc("Shared", w_hi), payout.batch_total,
                                       payout.total_shares)
       IN  /\ payout' = [payout EXCEPT !.shares = Append(payout.shares, out[1])]
           /\ ret' = CallValue("compute_distribution",
                               <<amount, w_lo, w_hi, payout.batch_total,
                                 payout.total_shares>>,
                               CircuitResult("Ok", "()"), out)
    /\ UNCHANGED <<batches, dists, pool, nullifiers, tokens, attempts, mxe>>

PayoutNext ==
    \/ \E amounts \in OrderBatches, ts \in AllU64 : StartPayout(amounts, ts)
    \/ \E lo \in WalletHalves, hi \in WalletHalves : ComputeNextShare(lo, hi)

Init ==
    /\ MpcInit
    /\ PoolInit
    /\ mxe = NoStats
    /\ payout = NoPayout
    /\ ret = NoCall

\* as Init, with the nullifier set empty or filled by earlier calls
RaceInit ==
    /\ MpcInit
    /\ pool = NoPool
    /\ tokens = [user |-> UserFunds, pool |-> 0]
    /\ nullifiers \in {EmptyNullifierSet, FilledNullifierSet(MAX_LEAVES - SpareSlots)}
    /\ attempts = [s \in Signers |-> NoAttempt]
    /\ mxe = NoStats
    /\ payout = NoPayout
    /\ ret = NoCall

Next ==
    MpcNext \/ PoolNext \/ NullifierNext \/ RaceNext \/ StatsNext \/ ShareNext \/ PayoutNext

Spec == Init /\ [][Next]_vars
MpcSpec == Init /\ [][MpcNext]_vars
PoolSpec == Init /\ [][PoolNext]_vars
NullifierSpec == Init /\ [][NullifierNext]_vars
RaceSpec == RaceInit /\ [][RaceNext]_vars
StatsSpec == Init /\ [][StatsNext]_vars
ShareSpec == Init /\ [][ShareNext]_vars
PayoutSpec == Init /\ [][PayoutNext]_vars

(***************************************************************************)
(* Properties of the batch lifecycle (obsidian_mpc), checked under MpcSpec.*)
(***************************************************************************)
\* the step is instruction op on batch m
IsCall(op, m) == ret'.op = op /\ ret'.args[1] = m

\* the step left every obsidian_mpc account as it was
MpcUnchanged == batches' = batches /\ dists' = dists

\* C1: the status of every batch only moves forward along
\* Open -> Closed -> Executed -> Distributing -> Completed, one step at a
\* time: every step either keeps the status or moves it to the next one, so
\* no status is skipped, re-entered or left for an earlier one.
C1_StatusForwardOneStep ==
    [][\A m \in Markets :
          \/ batches'[m].status = batches[m].status
          \/ StatusRank(batches'[m].status) = StatusRank(batches[m].status) + 1]_vars

\* a batch went through the whole lifecycle
C1_Witness ==
    \E m \in Markets :
        /\ batches[m].status = "Completed"
        /\ ret.op = "mark_distributed" /\ ret.err = "Ok"

\* C6: order_count grows by exactly one with every successful record_order
\* and changes in no other step (so after n successful calls it is n);
\* close_batch(T, c) on a batch with status Open, order_count > 0 and
\* c = order_count succeeds and sets status Closed and total_usdc T; it
\* succeeds in no other case: on a batch that is not Open it fails with
\* BatchNotOpen, on an Open batch with order_count 0 with BatchEmpty.
C6_CloseBatch ==
    [][\A m \in Markets :
          LET b == batches[m]
              b2 == batches'[m]
          IN  /\ IF IsCall("record_order", m) /\ ret'.err = "Ok"
                 THEN b2.order_count = b.order_count + 1
                 ELSE b2.order_count = b.order_count
              /\ (IsCall("close_batch", m) /\ b.initialized) =>
                    LET T == ret'.args[2]
                        c == ret'.args[3]
                    IN  /\ (b.status = "Open" /\ b.order_count > 0 /\ c = b.order_count)
                              => /\ ret'.err = "Ok"
                                 /\ b2.status = "Closed"
                                 /\ b2.total_usdc = T
                        /\ ret'.err = "Ok"
                              => (b.status = "Open" /\ b.order_count > 0
                                    /\ c = b.order_count)
                        /\ b.status # "Open" => ret'.err = "BatchNotOpen"
                        /\ (b.status = "Open" /\ b.order_count = 0)
                              => ret'.err = "BatchEmpty"]_vars

\* a batch with two recorded orders was closed with the revealed total 900
C6_Witness ==
    \E m \in Markets :
        /\ ret.op = "close_batch" /\ ret.err = "Ok" /\ ret.args = <<m, 900, 2>>
        /\ batches[m].status = "Closed"
        /\ batches[m].order_count = 2
        /\ batches[m].total_usdc = 900

\* C7: close_batch on an Open batch with order_count > 0 and a revealed
\* count other than order_count fails with CountMismatch and leaves the
\* batch (status Open, total_usdc, order_count, every field) and every
\* distribution as they were, so close_batch with the right count still
\* succeeds on it.
C7_CountMismatchNoMutation ==
    [][\A m \in Markets :
          LET b == batches[m]
          IN  (/\ IsCall("close_batch", m)
               /\ b.initialized /\ b.status = "Open" /\ b.order_count > 0
               /\ ret'.args[3] # b.order_count)
              => /\ ret'.err = "CountMismatch"
                 /\ ret'.emit = <<>>
                 /\ MpcUnchanged
                 /\ batches'[m].status = "Open"
                 /\ \A T \in Totals :
                       close_batch(batches'[m], T, b.order_count).err = "Ok"]_vars

\* a close_batch with a wrong count was rejected and the batch is still Open
C7_Witness ==
    \E m \in Markets :
        /\ ret.op = "close_batch" /\ ret.err = "CountMismatch"
        /\ batches[m].status = "Open"
        /\ batches[m].order_count = 2
        /\ batches[m].total_usdc = 0

\* a successful instruction op on batch m
Succeeded(op, m) == IsCall(op, m) /\ ret'.err = "Ok"

\* the order of the successful lifecycle calls, by the status before and after
PhaseOrder(m) ==
    LET b == batches[m]
        b2 == batches'[m]
    IN  /\ Succeeded("record_order", m) => (b.status = "Open" /\ b2.status = "Open")
        /\ Succeeded("close_batch", m) => (b.status = "Open" /\ b2.status = "Closed")
        /\ Succeeded("record_execution", m)
              => (b.status = "Closed" /\ b2.status = "Executed")
        /\ Succeeded("record_distribution", m)
              => (b.status \in {"Executed", "Distributing"}
                    /\ b2.status = "Distributing")

\* C8 as stated: record_order on a batch that is not Open fails with
\* BatchNotOpen, record_execution on a batch that is not Closed with
\* BatchNotClosed, record_distribution on a batch that is neither Executed
\* nor Distributing with BatchNotExecuted, each changing no account; and the
\* successful calls come in the order of the phases.
C8_Original ==
    [][\A m \in Markets :
          LET b == batches[m]
          IN  /\ (IsCall("record_order", m) /\ b.initialized /\ b.status # "Open")
                    => (ret'.err = "BatchNotOpen" /\ MpcUnchanged)
              /\ (IsCall("record_execution", m) /\ b.initialized /\ b.status # "Closed")
                    => (ret'.err = "BatchNotClosed" /\ MpcUnchanged)
              /\ (IsCall("record_distribution", m) /\ b.initialized
                    /\ b.status \notin {"Executed", "Distributing"})
                    => (ret'.err = "BatchNotExecuted" /\ MpcUnchanged)
              /\ PhaseOrder(m)]_vars

\* C8 (amended): as C8, except that record_distribution in a wrong phase
\* fails with BatchNotExecuted when its order_index has no Distribution yet;
\* for an order_index already recorded the init constraint of the
\* Distribution account rejects the call first.  In both cases nothing
\* changes.
C8_WrongPhaseRejected ==
    [][\A m \in Markets :
          LET b == batches[m]
          IN  /\ (IsCall("record_order", m) /\ b.initialized /\ b.status # "Open")
                    => (ret'.err = "BatchNotOpen" /\ MpcUnchanged)
              /\ (IsCall("record_execution", m) /\ b.initialized /\ b.status # "Closed")
                    => (ret'.err = "BatchNotClosed" /\ MpcUnchanged)
              /\ (IsCall("record_distribution", m) /\ b.initialized
                    /\ b.status \notin {"Executed", "Distributing"})
                    => /\ ret'.err = IF dists[<<m, ret'.args[2]>>].initialized
                                     THEN "AccountInUse" ELSE "BatchNotExecuted"
                       /\ ret'.emit = <<>>
                       /\ MpcUnchanged
              /\ PhaseOrder(m)]_vars

\* a second record_execution was rejected on a batch already past Closed
C8_Witness ==
    \E m \in Markets :
        /\ ret.op = "record_execution" /\ ret.err = "BatchNotClosed"
        /\ batches[m].status = "Distributing"

\* C9 as stated: the status becomes Completed only in a mark_distributed
\* step that makes distributions_completed equal to order_count, and in
\* every state with status Completed distributions_completed = order_count.
C9_Original ==
    [][\A m \in Markets :
          LET b == batches[m]
              b2 == batches'[m]
          IN  /\ (b.status # "Completed" /\ b2.status = "Completed")
                    => /\ Succeeded("mark_distributed", m)
                       /\ b2.distributions_completed = b2.order_count
              /\ b2.status = "Completed"
                    => b2.distributions_completed = b2.order_count]_vars

\* C10: mark_distributed on a distribution that is not executed succeeds,
\* sets executed and adds exactly one to distributions_completed; on an
\* executed distribution it fails with AlreadyDistributed and changes
\* nothing; executed never returns to false and distributions_completed
\* changes in no other step.
C10_MarkDistributedOnce ==
    [][\A m \in Markets, k \in DistKeys :
          LET b == batches[m]
              d == dists[k]
              marks == IsCall("mark_distributed", m) /\ <<ret'.args[2], ret'.args[3]>> = k
          IN  /\ (marks /\ b.initialized /\ d.initialized /\ d.batch = m /\ ~d.executed)
                    => /\ ret'.err = "Ok"
                       /\ dists'[k].executed
                       /\ batches'[m].distributions_completed
                              = b.distributions_completed + 1
              /\ (marks /\ b.initialized /\ d.initialized /\ d.batch = m /\ d.executed)
                    => /\ ret'.err = "AlreadyDistributed"
                       /\ MpcUnchanged
              /\ d.executed => dists'[k].executed
              /\ ~Succeeded("mark_distributed", m)
                    => batches'[m].distributions_completed = b.distributions_completed]_vars

\* a second mark_distributed on an executed distribution was rejected
C10_Witness ==
    \E m \in Markets, k \in DistKeys :
        /\ ret.op = "mark_distributed" /\ ret.err = "AlreadyDistributed"
        /\ ret.args = <<m, k[1], k[2]>>
        /\ dists[k].executed
        /\ batches[m].distributions_completed = 1

\* C11 as stated: mark_distributed succeeds only on a batch whose status is
\* Distributing; on a Completed batch (or in any other status) it never
\* flips executed or increments distributions_completed.
C11_Original ==
    [][\A m \in Markets :
          Succeeded("mark_distributed", m) => batches[m].status = "Distributing"]_vars

\* the Distribution accounts of batch m
DistributionsOf(m) == {k \in DistKeys : dists[k].initialized /\ dists[k].batch = m}

\* C12 as stated: a batch has at most order_count Distribution accounts and
\* every recorded order_index is less than order_count.
C12_Original ==
    \A m \in Markets :
        /\ Cardinality(DistributionsOf(m)) <= batches[m].order_count
        /\ \A k \in DistributionsOf(m) : dists[k].order_index < batches[m].order_count

\* C13: record_distribution for an order_index that already has a
\* Distribution is rejected, emits nothing and leaves every Distribution and
\* the batch as they were, whether or not that Distribution is executed; a
\* successful record_distribution is on an order_index without one, creates
\* it with the given shares and wallet and executed = false, and takes the
\* status from Executed or Distributing to Distributing, changing nothing
\* else of the batch; a Distribution once created keeps its batch,
\* order_index, shares and wallet.
C13_RecordDistributionOnce ==
    [][\A m \in Markets, i \in OrderIndices :
          LET k == <<m, i>>
              b == batches[m]
              d == dists[k]
              records == IsCall("record_distribution", m) /\ ret'.args[2] = i
          IN  /\ (records /\ d.initialized)
                    => /\ ret'.err # "Ok"
                       /\ ret'.emit = <<>>
                       /\ MpcUnchanged
              /\ (records /\ ret'.err = "Ok")
                    => /\ ~d.initialized
                       /\ dists'[k] = [initialized |-> TRUE, batch |-> m,
                                       order_index |-> i, shares |-> ret'.args[3],
                                       wallet |-> ret'.args[4], executed |-> FALSE]
                       /\ b.status \in {"Executed", "Distributing"}
                       /\ batches'[m] = [b EXCEPT !.status = "Distributing"]
              /\ d.initialized
                    => /\ dists'[k].initialized
                       /\ [dists'[k] EXCEPT !.executed = d.executed] = d]_vars

\* a second record_distribution, with other shares, was rejected for an
\* order_index whose Distribution is already executed
C13_Witness ==
    \E m \in Markets, k \in DistKeys :
        /\ ret.op = "record_distribution" /\ ret.err = "AccountInUse"
        /\ <<ret.args[1], ret.args[2]>> = k /\ k[1] = m
        /\ dists[k].executed
        /\ dists[k].shares # ret.args[3]
        /\ batches[m].status = "Distributing"

\* the instructions of obsidian_mpc
LifecycleOps ==
    {"create_batch", "record_order", "close_batch", "record_execution",
     "record_distribution", "mark_distributed"}

\* the event of a successful instruction: its name and its identifying
\* fields (the batch, then the counts, amounts, index and wallet it carries)
TransitionEvent(call, b2) ==
    CASE call.op = "create_batch" ->
             Event("BatchCreated", <<call.args[1], call.args[2]>>)
      [] call.op = "record_order" ->
             Event("OrderRecorded", <<call.args[1], b2.order_count>>)
      [] call.op = "close_batch" ->
             Event("BatchClosed", <<call.args[1], call.args[2], call.args[3]>>)
      [] call.op = "record_execution" ->
             Event("ExecutionRecorded", <<call.args[1], call.args[2]>>)
      [] call.op = "record_distribution" ->
             Event("DistributionRecorded",
                   <<call.args[1], call.args[2], call.args[3], call.args[4]>>)
      [] call.op = "mark_distributed" ->
             Event("DistributionExecuted", <<call.args[1], call.args[3]>>)

\* C17: every successful lifecycle instruction emits exactly one event, the
\* one of its transition with the batch and the transition's fields; every
\* rejected instruction emits no event and changes no account; and no
\* account changes without an event.  The event log, the concatenation of
\* the events of the instructions in their order, therefore has one entry
\* per successful transition, in the same order.
C17_OneEventPerTransition ==
    [][/\ ret'.op \in LifecycleOps
       /\ ret'.err = "Ok" => ret'.emit = <<TransitionEvent(ret', batches'[ret'.args[1]])>>
       /\ ret'.err # "Ok" => (ret'.emit = <<>> /\ MpcUnchanged)
       /\ ~MpcUnchanged => Len(ret'.emit) = 1]_vars

\* a record_order on a batch with one order succeeded and emitted its event
C17_Witness ==
    /\ ret.op = "record_order" /\ ret.err = "Ok"
    /\ ret.emit = <<Event("OrderRecorded", <<1, 2>>)>>
    /\ batches[1].order_count = 2

\* C18 as stated: a batch is keyed by (market_id, side): create_batch
\* succeeds whenever no batch with the same market_id and the same side
\* exists, so that the batches of the two sides of one market coexist, and
\* it is rejected, changing nothing, when a batch with the same market_id
\* and side exists.
C18_Original ==
    [][\A m \in Markets :
          IsCall("create_batch", m) =>
              LET same_key == batches[m].initialized /\ batches[m].side = ret'.args[2]
              IN  /\ ~same_key => ret'.err = "Ok"
                  /\ same_key => (ret'.err # "Ok" /\ MpcUnchanged)]_vars

\* C22 as stated: in every state in which a batch is Completed, every
\* order_index below order_count has a Distribution of that batch with
\* executed = true.
C22_Original ==
    \A m \in Markets :
        (batches[m].initialized /\ batches[m].status = "Completed")
            => \A i \in 0..(batches[m].order_count - 1) :
                  /\ <<m, i>> \in DistributionsOf(m)
                  /\ dists[<<m, i>>].executed

(***************************************************************************)
(* Properties of the nullifier set, checked under NullifierSpec.           *)
(***************************************************************************)
\* the stored entries data[0..count) are pairwise distinct
NullifiersDistinct ==
    \A i, j \in 1..nullifiers.count :
        i # j => nullifiers.data[i] # nullifiers.data[j]

\* nullifier N is among the stored entries
Stored(ns, N) == \E i \in 1..ns.count : ns.data[i] = N

\* C2: the stored entries are pairwise distinct in every state; stored
\* entries are never removed or changed; record_nullifier(N) succeeds only
\* when N is not stored, and then stores it, so it succeeds at most once per
\* N; on a stored N it fails with NullifierAlreadyUsed and leaves count and
\* data as they were.
C2_NullifierRecordedOnce ==
    /\ []NullifiersDistinct
    /\ [][/\ nullifiers'.count >= nullifiers.count
          /\ \A i \in 1..nullifiers.count : nullifiers'.data[i] = nullifiers.data[i]
          /\ ret'.op = "record_nullifier" =>
                LET N == ret'.args[1]
                IN  /\ Stored(nullifiers, N)
                          => /\ ret'.err = "NullifierAlreadyUsed"
                             /\ nullifiers' = nullifiers
                    /\ ret'.err = "Ok"
                          => /\ ~Stored(nullifiers, N)
                             /\ Stored(nullifiers', N)
                             /\ nullifiers'.count = nullifiers.count + 1]_vars

\* a second record_nullifier of a stored value was rejected
C2_Witness ==
    /\ ret.op = "record_nullifier" /\ ret.err = "NullifierAlreadyUsed"
    /\ nullifiers.count = 2
    /\ Stored(nullifiers, ret.args[1])

\* C20: is_nullifier_used(N) returns true exactly when N is stored and
\* never changes the set; no nullifier is stored at first, N becomes stored
\* only by a successful record_nullifier(N), which does store it, and stays
\* stored from then on.  So is_nullifier_used(N) is false before the first
\* successful record_nullifier(N) and true after it, and a value never
\* recorded, the all-zero value of the unused slots included, is never
\* reported as used.
C20_UsedIffRecorded ==
    /\ \A N \in Nullifiers : ~Stored(nullifiers, N)
    /\ [][\A N \in Nullifiers :
             LET recorded == /\ ret'.op = "record_nullifier" /\ ret'.args[1] = N
                             /\ ret'.err = "Ok"
             IN  /\ (ret'.op = "is_nullifier_used" /\ ret'.args[1] = N)
                       => /\ ret'.err = "Ok"
                          /\ ret'.value = IF Stored(nullifiers, N) THEN "true" ELSE "false"
                          /\ nullifiers' = nullifiers
                 /\ Stored(nullifiers, N) => Stored(nullifiers', N)
                 /\ (~Stored(nullifiers, N) /\ Stored(nullifiers', N)) => recorded
                 /\ recorded => (~Stored(nullifiers, N) /\ Stored(nullifiers', N))]_vars

\* the all-zero nullifier was recorded after another one and is reported as used
C20_Witness ==
    /\ ret.op = "is_nullifier_used" /\ ret.args = <<0>> /\ ret.value = "true"
    /\ nullifiers.count = 2
    /\ nullifiers.data[2] = 0

\* C21 as stated: record_nullifier and add_commitment succeed only when
\* signed by the relay, the key that set up the pool; signed by any other
\* key they are rejected and change neither the nullifier set nor the pool.
C21_Original ==
    [][(ret'.op \in {"record_nullifier", "add_commitment"} /\ ret'.args[2] # Operator)
          => /\ ret'.err # "Ok"
             /\ nullifiers' = nullifiers
             /\ pool' = pool]_vars

(***************************************************************************)
(* Properties of concurrent record_nullifier calls, checked under RaceSpec.*)
(***************************************************************************)
\* the transaction of signer s has been executed
Executed(s) == attempts[s].status \notin {"none", "sent"}

\* s1 and s2 sent record_nullifier for one nullifier while both were in
\* flight, and both transactions have been executed
RaceOver(s1, s2) ==
    /\ s1 # s2
    /\ attempts[s1].raced /\ attempts[s2].raced
    /\ attempts[s1].nullifier = attempts[s2].nullifier
    /\ Executed(s1) /\ Executed(s2)

\* C19 as stated: of the concurrent record_nullifier attempts for one
\* nullifier exactly one succeeds, in every order of execution, and the
\* nullifier is never stored twice.
C19_Original ==
    /\ NullifiersDistinct
    /\ \A s1, s2 \in Signers :
          RaceOver(s1, s2)
              => Cardinality({s \in {s1, s2} : attempts[s].status = "Ok"}) = 1

\* C19 (amended): of the concurrent record_nullifier attempts for one
\* nullifier at most one succeeds, in every order of execution: when the set
\* has a free slot the one executed first succeeds and the other fails with
\* NullifierAlreadyUsed; when the set is full both fail with
\* NullifierStorageFull and the nullifier is not stored.  A failing attempt
\* leaves the set as it was, an attempt succeeds only on a set that does not
\* hold the nullifier, and the nullifier is never stored twice.
C19_RaceHasAtMostOneWinner ==
    /\ [](/\ NullifiersDistinct
          /\ \A s1, s2 \in Signers :
                RaceOver(s1, s2)
                    => \/ /\ {attempts[s1].status, attempts[s2].status}
                                = {"Ok", "NullifierAlreadyUsed"}
                          /\ Stored(nullifiers, attempts[s1].nullifier)
                       \/ /\ {attempts[s1].status, attempts[s2].status}
                                = {"NullifierStorageFull"}
                          /\ nullifiers.count = MAX_LEAVES
                          /\ ~Stored(nullifiers, attempts[s1].nullifier))
    /\ [][\A s \in Signers :
             (attempts[s].status = "sent" /\ attempts'[s].status # "sent") =>
                 LET N == attempts[s].nullifier
                 IN  /\ attempts'[s].status = "Ok"
                           <=> (~Stored(nullifiers, N) /\ nullifiers.count < MAX_LEAVES)
                     /\ attempts'[s].status = "Ok" => Stored(nullifiers', N)
                     /\ attempts'[s].status # "Ok" => nullifiers' = nullifiers]_vars

\* two signers raced for nullifier 2: the first executed succeeded, the
\* other was rejected
C19_Witness ==
    /\ RaceOver(1, 2)
    /\ attempts[1].nullifier = 2
    /\ attempts[1].status = "NullifierAlreadyUsed"
    /\ attempts[2].status = "Ok"
    /\ ret.op = "record_nullifier" /\ ret.err = "NullifierAlreadyUsed"

(***************************************************************************)
(* Properties of the commitment tree, checked under PoolSpec.              *)
(***************************************************************************)
\* the all-zero subtree of the given height
RECURSIVE ZeroSubtree(_)
ZeroSubtree(height) ==
    IF height = 0 THEN Zero
    ELSE hash_pair(ZeroSubtree(height - 1), ZeroSubtree(height - 1))

\* the node at (height, index) of the tree over leaves[0..count) padded on
\* the right with the zero leaf
RECURSIVE TreeNode(_, _, _, _)
TreeNode(leaves, count, height, index) ==
    IF height = 0
    THEN IF index < count THEN leaves[index + 1] ELSE Zero
    ELSE hash_pair(TreeNode(leaves, count, height - 1, 2 * index),
                   TreeNode(leaves, count, height - 1, 2 * index + 1))

\* the reference root: pad to 2^MERKLE_DEPTH leaves, hash pairwise MERKLE_DEPTH rounds
ReferenceRoot(leaves, count) == TreeNode(leaves, count, MERKLE_DEPTH, 0)

\* C3 as stated: in every state of an initialized pool, the empty one
\* included, merkle_root is the reference root of leaves[0..next_index).
C3_Original ==
    pool.initialized => pool.merkle_root = ReferenceRoot(pool.leaves, pool.next_index)

\* C3 (amended): in every state of an initialized pool with next_index >= 1
\* merkle_root is the reference root of leaves[0..next_index); with
\* next_index = 0 it is the all-zero value, which is not the reference root
\* of the empty tree.  In both cases it is a function of the stored leaves
\* alone, so two pools given the same commitments in the same order hold
\* the same root.
C3_RootIsReferenceRoot ==
    pool.initialized =>
        /\ pool.next_index >= 1
              => pool.merkle_root = ReferenceRoot(pool.leaves, pool.next_index)
        /\ pool.next_index = 0
              => /\ pool.merkle_root = Zero
                 /\ pool.merkle_root # ReferenceRoot(pool.leaves, pool.next_index)

\* the tree holds three leaves, two of them different, the last by add_commitment
C3_Witness ==
    /\ pool.next_index = 3
    /\ pool.leaves[1] # pool.leaves[2]
    /\ ret.op = "add_commitment" /\ ret.err = "Ok"

\* H(...H(H(v, 0), 0)..., 0): v hashed against the zero leaf `rounds` times
RECURSIVE ZeroLeafChain(_, _)
ZeroLeafChain(v, rounds) ==
    IF rounds = 0 THEN v ELSE hash_pair(ZeroLeafChain(v, rounds - 1), Zero)

\* v hashed, level by level, against the all-zero subtree of that level
RECURSIVE ZeroSubtreeChain(_, _)
ZeroSubtreeChain(v, rounds) ==
    IF rounds = 0 THEN v
    ELSE hash_pair(ZeroSubtreeChain(v, rounds - 1), ZeroSubtree(rounds - 1))

\* C4 as stated: with a single leaf L in the tree, the root is L hashed
\* against the all-zero value MERKLE_DEPTH times.
C4_Original ==
    (pool.initialized /\ pool.next_index = 1)
        => pool.merkle_root = ZeroLeafChain(pool.leaves[1], MERKLE_DEPTH)

\* C4 (amended): with a single leaf L in the tree, the root is L hashed
\* MERKLE_DEPTH times, the right input at level k being the root of the
\* all-zero subtree of height k (Z0 the zero leaf, Zk+1 = H(Zk, Zk)); only at
\* the first level is that the all-zero value.
C4_SingleLeafRoot ==
    (pool.initialized /\ pool.next_index = 1)
        => pool.merkle_root = ZeroSubtreeChain(pool.leaves[1], MERKLE_DEPTH)

\* a single non-zero leaf was deposited into the empty tree
C4_Witness ==
    /\ pool.next_index = 1
    /\ pool.leaves[1] = <<2>>
    /\ ret.op = "deposit" /\ ret.err = "Ok"

\* C5: next_index never exceeds MAX_LEAVES; with next_index = MAX_LEAVES
\* every deposit and add_commitment fails with TreeFull, leaves the pool
\* (leaves, next_index, merkle_root) as it was, moves no tokens and emits no
\* event.
C5_TreeFull ==
    /\ [](pool.next_index <= MAX_LEAVES)
    /\ [][(/\ ret'.op \in {"deposit", "add_commitment"}
           /\ pool.initialized
           /\ pool.next_index = MAX_LEAVES)
          => /\ ret'.err = "TreeFull"
             /\ pool' = pool
             /\ tokens' = tokens
             /\ ret'.emit = <<>>]_vars

\* a deposit into the full tree was rejected while the user had funds for it
C5_Witness ==
    /\ ret.op = "deposit" /\ ret.err = "TreeFull" /\ ret.args[2] = 1
    /\ pool.next_index = MAX_LEAVES
    /\ tokens.user >= 1

\* C24: a successful deposit or add_commitment writes its commitment to
\* the slot at the previous next_index and adds exactly one to next_index;
\* every step leaves the leaves below the previous next_index as they were
\* and never decreases next_index, and next_index changes in no other step;
\* no step of the pool touches the nullifier set or nullifier_count.
C24_AppendOnly ==
    [][/\ (ret'.op \in {"deposit", "add_commitment"} /\ ret'.err = "Ok")
             => /\ pool'.leaves[pool.next_index + 1] = <<ret'.args[1]>>
                /\ pool'.next_index = pool.next_index + 1
                /\ \A i \in 1..MAX_LEAVES :
                      i # pool.next_index + 1 => pool'.leaves[i] = pool.leaves[i]
       /\ ~(ret'.op \in {"deposit", "add_commitment"} /\ ret'.err = "Ok")
             => (pool'.next_index = pool.next_index /\ pool'.leaves = pool.leaves)
       /\ pool'.next_index >= pool.next_index
       /\ \A i \in 1..pool.next_index : pool'.leaves[i] = pool.leaves[i]
       /\ nullifiers' = nullifiers
       /\ pool'.nullifier_count = pool.nullifier_count]_vars

\* add_commitment appended a third leaf after two different ones
C24_Witness ==
    /\ ret.op = "add_commitment" /\ ret.err = "Ok" /\ ret.args[1] = 0
    /\ pool.next_index = 3
    /\ pool.leaves[1] = <<2>> /\ pool.leaves[2] = <<1>> /\ pool.leaves[3] = Zero

(***************************************************************************)
(* Properties of compute_distribution, checked under ShareSpec.            *)
(***************************************************************************)
\* floor(amount * total_shares / batch_total) over the unbounded integers
FloorShare(amount, total_shares, batch_total) == (amount * total_shares) \div batch_total

\* C14 as stated: for every u64 amount, total_shares and batch_total the
\* revealed share is floor(amount * total_shares / batch_total) when
\* batch_total > 0 and 0 when batch_total = 0, and the wallet halves are
\* revealed as they were given.
C14_Original ==
    ret.op = "compute_distribution" =>
        LET amount == ret.args[1]
            batch_total == ret.args[4]
            total_shares == ret.args[5]
        IN  /\ batch_total > 0
                  => ret.value[1] = FloorShare(amount, total_shares, batch_total)
            /\ batch_total = 0 => ret.value[1] = 0
            /\ ret.value[2] = ret.args[2]
            /\ ret.value[3] = ret.args[3]

\* C14 (amended): the product amount * total_shares is formed in u128, where
\* it never overflows; with batch_total > 0 the revealed share is the floor
\* of the quotient when that floor fits a u64 (as it does whenever amount <=
\* batch_total), and the floor reduced modulo 2^64, a different value, when
\* it does not; with batch_total = 0 the share is 0; the wallet halves are
\* revealed as they were given.
C14_ShareIsFloorWhenItFits ==
    ret.op = "compute_distribution" =>
        LET amount == ret.args[1]
            batch_total == ret.args[4]
            total_shares == ret.args[5]
            floor == FloorShare(amount, total_shares, batch_total)
        IN  /\ as_u128(amount * total_shares) = amount * total_shares
            /\ (batch_total > 0 /\ floor < U64) => ret.value[1] = floor
            /\ (batch_total > 0 /\ amount <= batch_total) => floor < U64
            /\ (batch_total > 0 /\ floor >= U64)
                  => (ret.value[1] = floor % U64 /\ ret.value[1] # floor)
            /\ batch_total = 0 => ret.value[1] = 0
            /\ ret.value[2] = ret.args[2]
            /\ ret.value[3] = ret.args[3]

\* a share was computed whose product amount * total_shares does not fit a
\* u64 while the quotient does
C14_Witness ==
    /\ ret.op = "compute_distribution"
    /\ ret.args[1] * ret.args[5] >= U64
    /\ ret.args[4] >= ret.args[1]
    /\ ret.value[1] > 0
    /\ ret.value[2] # ret.value[3]

(***************************************************************************)
(* Properties of the confidential batch statistics, checked under          *)
(* StatsSpec.                                                              *)
(***************************************************************************)
\* a run adding the given amounts completes and reveals the given pair
RevealedBy(amounts, pair) ==
    \E o \in OverflowOutcomes :
        LET r == StatsAfter(amounts, o)
        IN  r.err = "Ok" /\ reveal_batch_total(r.value) = pair

\* a Batch account, Open, on which record_order succeeded n times
OpenBatchWith(n) ==
    [NoBatch EXCEPT !.initialized = TRUE, !.authority = Operator, !.market_id = 1,
                    !.order_count = n]

\* C15 as stated: whenever the revealed pair (total, count) closes a batch,
\* then for every order of the batch there is a run of the same length with
\* another amount for that order that reveals the same pair, so that the
\* revealed values never determine an order's amount.
C15_Original ==
    (/\ ret.op = "reveal_batch_total"
     /\ close_batch(OpenBatchWith(Len(mxe.orders)), ret.value[1], ret.value[2]).err = "Ok")
    => \A i \in 1..Len(mxe.orders) :
          \E other \in [1..Len(mxe.orders) -> AllU64] :
              /\ other[i] # mxe.orders[i]
              /\ RevealedBy(other, ret.value)

\* C16: init_batch followed by n add_to_batch calls with amounts a1..an
\* whose sum fits the total and whose number fits the count, followed by
\* reveal_batch_total, reveals the pair (a1 + ... + an, n), both fields from
\* the one call; with n = 0 the pair is (0, 0).
C16_RevealIsSumAndCount ==
    (/\ ret.op = "reveal_batch_total"
     /\ Sum(mxe.orders) < U64
     /\ Len(mxe.orders) < U8)
    => /\ ret.value = <<Sum(mxe.orders), Len(mxe.orders)>>
       /\ mxe.orders = <<>> => ret.value = <<0, 0>>

\* the total of the two orders 1 and 2 was revealed
C16_Witness ==
    /\ ret.op = "reveal_batch_total"
    /\ mxe.orders = <<1, 2>>
    /\ ret.value = <<3, 2>>

(***************************************************************************)
(* Properties of the distribution of a batch, checked under PayoutSpec.    *)
(***************************************************************************)
\* C23: for a batch whose order amounts sum to batch_total > 0, and any
\* total_shares, the shares revealed by compute_distribution for its orders
\* never sum to more than total_shares, each being the floor of its exact
\* pro-rata part; once every order has its share, the sum falls short of
\* total_shares by less than the number of orders.
C23_NoOverAllocation ==
    (/\ payout.started
     /\ Sum(payout.amounts) = payout.batch_total
     /\ payout.batch_total > 0)
    => /\ Sum(payout.shares) <= payout.total_shares
       /\ \A i \in 1..Len(payout.shares) :
             payout.shares[i] = FloorShare(payout.amounts[i], payout.total_shares,
                                           payout.batch_total)
       /\ Len(payout.shares) = Len(payout.amounts)
             => payout.total_shares - Sum(payout.shares) < Len(payout.amounts)

\* the two orders 1 and 2 of a batch of total 3 received 0 and 1 of 2 shares
C23_Witness ==
    /\ payout.amounts = <<1, 2>>
    /\ payout.batch_total = 3
    /\ payout.total_shares = 2
    /\ payout.shares = <<0, 1>>
    /\ ret.op = "compute_distribution"

====
